---- MODULE Spec2Model ----
(***************************************************************************)
(* Recording lifecycle of class-voice-note: the capture hook               *)
(* (useAudioRecorder), the recording registry and its snapshot in          *)
(* localStorage (App), the analysis call (analyzeLectureAudio) and the     *)
(* audio blob store (storageService).                                      *)
(***************************************************************************)
EXTENDS Integers, Sequences, FiniteSets, TLC

\* ------------------------------------------------------------------ bounds
\* startRecording calls over the whole run (all process lifetimes together)
MaxCaptures == 2
\* one-second ticks of the elapsed-time counter that are followed
MaxTicks == 1

\* ------------------------------------------------------- program constants
\* App.tsx:170  sentences[0].length < 30
TitleLimit == 30

\* values of generateId(): Math.random().toString(36).substr(2, 9)
Ids == {"a", "b"}

\* '기타' (gita), the fallback category; strings of the model are ASCII
Fallback == <<"g", "i", "t", "a">>
\* 'AI 분석 중 오류가 발생했습니다.'
AnalysisErrorMsg == "AI analysis failed"
\* '녹음 처리 중 페이지가 새로고침되어 중단되었습니다.'
InterruptedMsg == "interrupted by page reload"

\* an optional field: <<>> when absent (undefined / null), <<v>> when present
None == <<>>
Some(v) == <<v>>

Min(S) == CHOOSE x \in S : \A y \in S : x <= y

\* ----------------------------------------------------------------- strings
\* strings are sequences of one-character strings
RECURSIVE Rep(_, _)
Rep(c, n) == IF n = 0 THEN <<>> ELSE <<c>> \o Rep(c, n - 1)

Whitespace == {" ", "\t"}

RECURSIVE trimStart(_)
trimStart(s) ==
  IF s # <<>> /\ Head(s) \in Whitespace THEN trimStart(Tail(s)) ELSE s

RECURSIVE trimEnd(_)
trimEnd(s) ==
  IF s # <<>> /\ s[Len(s)] \in Whitespace
  THEN trimEnd(SubSeq(s, 1, Len(s) - 1))
  ELSE s

\* String.prototype.trim
trim(s) == trimEnd(trimStart(s))

\* the separators of summary.split(/[.!?]/)
Terminators == {".", "!", "?"}

\* String.prototype.split on a one-character separator class: the sequence of
\* the pieces between separators (never empty: "" splits to [""])
RECURSIVE splitFrom(_, _)
splitFrom(s, cur) ==
  IF s = <<>> THEN <<cur>>
  ELSE IF Head(s) \in Terminators
       THEN <<cur>> \o splitFrom(Tail(s), <<>>)
       ELSE splitFrom(Tail(s), Append(cur, Head(s)))

split(s) == splitFrom(s, <<>>)

\* a faulty variant of extractTitle: the threshold test written <= instead of <
extractTitle_le(summary) ==
  LET sentences == split(summary)
  IN  IF Len(sentences) > 0 /\ Len(sentences[1]) <= TitleLimit
      THEN Some(sentences[1])
      ELSE None

\* extractTitle: the first sentence when shorter than 30, else null
extractTitle(summary) ==
  LET sentences == split(summary)
  IN  IF Len(sentences) > 0 /\ Len(sentences[1]) < TitleLimit
      THEN Some(sentences[1])
      ELSE None

\* a || b on strings: the empty string and null are falsy
OrElse(opt, dflt) == IF opt # None /\ opt[1] # <<>> THEN opt[1] ELSE dflt

Digits == <<"0", "1", "2", "3", "4", "5", "6", "7", "8", "9">>
\* `강의 녹음 ${n}`, written L n
DefaultTitle(n) == <<"L", " ", Digits[n + 1]>>

\* ---------------------------------------------------------------- analysis
\* summaries the analysis service may return: a first sentence of 0, 1,
\* TitleLimit - 1 or TitleLimit characters, with and without a terminator
Summaries ==
  { <<".", "x">>,
    Rep("k", TitleLimit - 1) \o <<"!", "x">>,
    Rep("k", TitleLimit) }

\* NoteData; transcript, keyTerms and examQuestions are carried along
\* untouched by every operation and are left out
NoteDatas == { [summary |-> s] : s \in Summaries }

\* what the remote call yields: a rejection (network, blobToBase64), or a
\* response whose text is absent/empty, is not JSON, or is the JSON of a NoteData
Responses ==
  { [rejected |-> TRUE, text |-> None] }
  \cup { [rejected |-> FALSE, text |-> None] }
  \cup { [rejected |-> FALSE, text |-> Some([json |-> FALSE, data |-> d])] :
           d \in { [summary |-> <<>>] } }
  \cup { [rejected |-> FALSE, text |-> Some([json |-> TRUE, data |-> d])] :
           d \in NoteDatas }

\* analyzeLectureAudio: resolves with the parsed data, or throws (ok = FALSE)
\* when the call rejects, the text is empty or JSON.parse throws
analyzeLectureAudio(response) ==
  IF response.rejected THEN [ok |-> FALSE, data |-> None]
  ELSE IF response.text = None THEN [ok |-> FALSE, data |-> None]
  ELSE IF ~response.text[1].json THEN [ok |-> FALSE, data |-> None]
  ELSE [ok |-> TRUE, data |-> Some(response.text[1].data)]

\* ---------------------------------------------------------------- registry
\* a Blob of the recorder, and what JSON.stringify/JSON.parse leave of one:
\* a Blob has no enumerable own property, so it is written as {} and read
\* back as a plain empty object
NewBlob(chunks) == [type |-> "audio/webm", chunks |-> chunks]
\* the blob of a session that holds the data of that session alone
Blob(serial) == NewBlob(<<serial>>)
EmptyObject == [type |-> "object", chunks |-> <<>>]

\* the record handleRecordingCompleteCallback creates; its date, which no
\* operation reads or changes after creation, is left out
NewRecording(newId, len, duration, blob) ==
  [ id           |-> newId,
    title        |-> DefaultTitle(len + 1),
    subject      |-> Fallback,
    duration     |-> duration,
    audioBlob    |-> Some(blob),
    status       |-> "processing",
    data         |-> None,
    errorMessage |-> None ]

\* a faulty variant of InsertRecording: the new record appended at the tail
InsertRecording_tail(prev, rec) == Append(prev, rec)

\* setRecordings(prev => [newRecording, ...prev])
InsertRecording(prev, rec) == <<rec>> \o prev

\* a faulty variant of MarkCompleted: the update applied whatever the record's id
MarkCompleted_all(prev, newId, result) ==
  [ i \in DOMAIN prev |->
      [ prev[i] EXCEPT !.status = "completed",
                       !.data = Some(result),
                       !.title = OrElse(extractTitle(result.summary), prev[i].title) ] ]

\* prev.map(rec => rec.id === newId
\*   ? {...rec, status: 'completed', data: result,
\*      title: extractTitle(result.summary) || rec.title} : rec)
MarkCompleted(prev, newId, result) ==
  [ i \in DOMAIN prev |->
      IF prev[i].id = newId
      THEN [ prev[i] EXCEPT !.status = "completed",
                            !.data = Some(result),
                            !.title = OrElse(extractTitle(result.summary), prev[i].title) ]
      ELSE prev[i] ]

\* prev.map(rec => rec.id === newId
\*   ? {...rec, status: 'error', errorMessage: '...'} : rec)
MarkError(prev, newId) ==
  [ i \in DOMAIN prev |->
      IF prev[i].id = newId
      THEN [ prev[i] EXCEPT !.status = "error",
                            !.errorMessage = Some(AnalysisErrorMsg) ]
      ELSE prev[i] ]

\* prev.filter(r => r.id !== id)
RECURSIVE RemoveRecording(_, _)
RemoveRecording(prev, id) ==
  IF prev = <<>> THEN <<>>
  ELSE IF Head(prev).id # id
       THEN <<Head(prev)>> \o RemoveRecording(Tail(prev), id)
       ELSE RemoveRecording(Tail(prev), id)

\* a faulty variant of RenameRecording: the subject taken without trim()
RenameRecording_notrim(prev, editingId, editTitle, editSubject) ==
  [ i \in DOMAIN prev |->
      IF prev[i].id = editingId
      THEN [ prev[i] EXCEPT !.title = editTitle,
                            !.subject = OrElse(Some(editSubject), Fallback) ]
      ELSE prev[i] ]

\* prev.map(rec => rec.id === editingId
\*   ? {...rec, title: editTitle, subject: editSubject.trim() || '기타'} : rec)
RenameRecording(prev, editingId, editTitle, editSubject) ==
  [ i \in DOMAIN prev |->
      IF prev[i].id = editingId
      THEN [ prev[i] EXCEPT !.title = editTitle,
                            !.subject = OrElse(Some(trim(editSubject)), Fallback) ]
      ELSE prev[i] ]

\* JSON.stringify(recordings): undefined fields are dropped, the Date is
\* written as its ISO string, a Blob is written as {}
Serialize(recs) ==
  [ i \in DOMAIN recs |->
      [ recs[i] EXCEPT !.audioBlob =
          IF recs[i].audioBlob = None THEN None ELSE Some(EmptyObject) ] ]

\* a faulty variant of Rehydrate: the status of the snapshot kept as it is
Rehydrate_keep(saved) ==
  [ i \in DOMAIN saved |->
      [ saved[i] EXCEPT !.subject = OrElse(Some(saved[i].subject), Fallback) ] ]

\* the initializer of the recordings state: JSON.parse(savedData).map(...)
Rehydrate(saved) ==
  [ i \in DOMAIN saved |->
      [ saved[i] EXCEPT
          !.subject = OrElse(Some(saved[i].subject), Fallback),
          !.status = IF saved[i].status = "processing" THEN "error"
                     ELSE saved[i].status,
          !.errorMessage = IF saved[i].status = "processing"
                           THEN Some(InterruptedMsg)
                           ELSE saved[i].errorMessage ] ]

\* -------------------------------------------------------------- blob store
\* storageService (IndexedDB): put(id, audio), delete(id) and get(id) on a
\* store keyed by id; delete is idempotent
saveAudio(store, id, blob) == [store EXCEPT ![id] = Some(blob)]
deleteAudio(store, id) == [store EXCEPT ![id] = None]
getAudio(store, id) == store[id]

\* ------------------------------------------------------------------- state
VARIABLES
  recordings,     \* App: the recordings state, most recent first
  snapshot,       \* localStorage['profnote-recordings'], parsed
  handlers,       \* handleRecordingCompleteCallback invocations suspended at an await
  blobStore,      \* storageService: id -> the stored audio, None when absent
  deletes,        \* deleteRecording: id -> position of its deleteAudio call
  editingId,      \* App: the record being edited, None when the modal is closed
  isRecording,    \* useAudioRecorder: isRecording
  duration,       \* useAudioRecorder: duration
  permissionError,\* useAudioRecorder: whether permissionError holds the message
  timerRef,       \* useAudioRecorder: whether the interval is running
  mediaRecorder,  \* useAudioRecorder: mediaRecorderRef.current, a session
  streamRef,      \* useAudioRecorder: streamRef.current, a session
  audioContextRef,\* useAudioRecorder: audioContextRef.current (and the
                  \* analyser and source made from it), a session
  chunksRef,      \* useAudioRecorder: chunksRef.current
  recorders,      \* session -> the MediaRecorder startRecording created
  streams,        \* session -> the MediaStream getUserMedia resolved with
  contexts,       \* session -> the AudioContext startRecording created
  startRequests,  \* startRecording calls suspended at getUserMedia
  onstopEvents,   \* stop events queued by MediaRecorder.stop()
  started         \* startRecording calls so far

vars ==
  << recordings, snapshot, handlers, blobStore, deletes, editingId,
     isRecording, duration, permissionError, timerRef, mediaRecorder,
     streamRef, audioContextRef, chunksRef, recorders, streams, contexts,
     startRequests, onstopEvents, started >>

registryVars == << recordings, snapshot >>
editVars == << editingId >>
\* the refs of the hook and the platform objects they point to
refVars == << mediaRecorder, streamRef, audioContextRef, chunksRef >>
deviceVars == << recorders, streams, contexts >>
hookVars ==
  << isRecording, duration, permissionError, timerRef, refVars, deviceVars,
     startRequests, onstopEvents, started >>
storeVars == << blobStore, deletes >>

\* the startRecording calls, numbered in the order of the calls; a call that
\* is granted the microphone makes one stream, one context and one recorder
Sessions == 1..MaxCaptures
\* no MediaRecorder yet for the session
NoRecorder == [state |-> "none", onstop |-> None]

\* editTitle and editSubject when save is pressed: the two fields of the modal
\* are set by startEditing and by the onChange handlers of the inputs, and
\* read by saveEdit alone, so they are inputs of saveEdit
EditTitles == { <<>> }
EditSubjects == { <<>>, <<" ">>, <<" ", "M", "\t">> }

\* first load: nothing in localStorage, nothing in IndexedDB; the persistence
\* effect of the first render writes the empty list
Init ==
  /\ recordings = <<>>
  /\ snapshot = <<>>
  /\ handlers = {}
  /\ blobStore = [ id \in Ids |-> None ]
  /\ deletes = [ id \in Ids |-> "none" ]
  /\ editingId = None
  /\ isRecording = FALSE
  /\ duration = 0
  /\ permissionError = FALSE
  /\ timerRef = FALSE
  /\ mediaRecorder = None
  /\ streamRef = None
  /\ audioContextRef = None
  /\ chunksRef = <<>>
  /\ recorders = [ s \in Sessions |-> NoRecorder ]
  /\ streams = [ s \in Sessions |-> "none" ]
  /\ contexts = [ s \in Sessions |-> "none" ]
  /\ startRequests = {}
  /\ onstopEvents = {}
  /\ started = 0

\* setRecordings(next) followed by the persistence effect
\* localStorage.setItem('profnote-recordings', JSON.stringify(recordings))
SetRecordings(next) ==
  /\ recordings' = next
  /\ snapshot' = Serialize(next)

\* ------------------------------------------------------------ capture hook
\* toggleRecording while not recording: startRecording() is called and
\* suspends at getUserMedia; the call closes over the duration and the
\* onRecordingComplete (hence the recordings) of the current render
ToggleStart ==
  /\ ~isRecording
  /\ started < MaxCaptures
  /\ started' = started + 1
  /\ startRequests' = startRequests \cup
       { [serial |-> started + 1, len |-> Len(recordings), duration |-> duration] }
  /\ UNCHANGED << registryVars, handlers, storeVars, editVars, isRecording,
                  duration, permissionError, timerRef, refVars, deviceVars,
                  onstopEvents >>

\* getUserMedia resolves: the stream, the audio context and the recorder are
\* created and put in the refs, the chunk buffer is replaced by an empty one,
\* the recorder is started, the state reset and the interval set (an interval
\* still running is cleared first, so that one interval runs at most)
MicrophoneGranted(req) ==
  /\ req \in startRequests
  /\ startRequests' = startRequests \ {req}
  /\ streams' = [streams EXCEPT ![req.serial] = "live"]
  /\ streamRef' = Some(req.serial)
  /\ contexts' = [contexts EXCEPT ![req.serial] = "running"]
  /\ audioContextRef' = Some(req.serial)
  /\ recorders' = [recorders EXCEPT
                     ![req.serial] = [state |-> "recording", onstop |-> Some(req)]]
  /\ mediaRecorder' = Some(req.serial)
  /\ chunksRef' = <<>>
  /\ isRecording' = TRUE
  /\ duration' = 0
  /\ permissionError' = FALSE
  /\ timerRef' = TRUE
  /\ UNCHANGED << registryVars, handlers, storeVars, editVars, onstopEvents,
                  started >>

\* the statements of startRecording after the await that can throw: the
\* AudioContext constructor (no audio device, too many contexts) and the
\* MediaRecorder constructor (mimeType 'audio/webm' not supported)
FailingSteps == {"AudioContext", "MediaRecorder"}

\* getUserMedia resolves and a later statement of the try block throws: what
\* was assigned before the throw stays assigned, and the catch block only sets
\* the permission message
StartFails(req, step) ==
  /\ req \in startRequests
  /\ step \in FailingSteps
  /\ startRequests' = startRequests \ {req}
  /\ streams' = [streams EXCEPT ![req.serial] = "live"]
  /\ streamRef' = Some(req.serial)
  /\ IF step = "MediaRecorder"
     THEN /\ contexts' = [contexts EXCEPT ![req.serial] = "running"]
          /\ audioContextRef' = Some(req.serial)
     ELSE UNCHANGED << contexts, audioContextRef >>
  /\ permissionError' = TRUE
  /\ UNCHANGED << registryVars, handlers, storeVars, editVars, isRecording,
                  duration, timerRef, mediaRecorder, chunksRef, recorders,
                  onstopEvents, started >>

\* a faulty variant of MicrophoneDenied: the rejection swallowed, no message set
MicrophoneDenied_silent(req) ==
  /\ req \in startRequests
  /\ startRequests' = startRequests \ {req}
  /\ UNCHANGED << registryVars, handlers, storeVars, editVars, isRecording,
                  duration, permissionError, timerRef, refVars, deviceVars,
                  onstopEvents, started >>

\* getUserMedia rejects: the catch block only sets the permission message
MicrophoneDenied(req) ==
  /\ req \in startRequests
  /\ startRequests' = startRequests \ {req}
  /\ permissionError' = TRUE
  /\ UNCHANGED << registryVars, handlers, storeVars, editVars, isRecording,
                  duration, timerRef, refVars, deviceVars, onstopEvents,
                  started >>

\* the interval callback: setDuration(prev => prev + 1)
Tick ==
  /\ timerRef
  /\ duration < MaxTicks
  /\ duration' = duration + 1
  /\ UNCHANGED << registryVars, handlers, storeVars, editVars, isRecording,
                  permissionError, timerRef, refVars, deviceVars,
                  startRequests, onstopEvents, started >>

\* stopRecording, reached from toggleRecording and from the mini player, both
\* only while isRecording; MediaRecorder.stop() makes the recorder inactive
\* at once and queues the task that fires dataavailable and stop
StopRecording ==
  /\ isRecording
  /\ IF mediaRecorder # None /\ recorders[mediaRecorder[1]].state # "inactive"
     THEN /\ recorders' = [recorders EXCEPT
                             ![mediaRecorder[1]] = [state |-> "inactive", onstop |-> None]]
          /\ onstopEvents' = onstopEvents \cup {recorders[mediaRecorder[1]].onstop[1]}
          /\ isRecording' = FALSE
          /\ timerRef' = FALSE
     ELSE UNCHANGED << recorders, onstopEvents, isRecording, timerRef >>
  /\ UNCHANGED << registryVars, handlers, storeVars, editVars, duration,
                  permissionError, refVars, streams, contexts, startRequests,
                  started >>

\* MediaRecorder: when every track of the stream it records has ended while it
\* is recording, the recorder becomes inactive and queues the same task as
\* stop(); the tracks of a stream end when cleanupAudio stops them
TracksEnded(s) ==
  /\ s \in Sessions
  /\ recorders[s].state = "recording"
  /\ streams[s] = "ended"
  /\ recorders' = [recorders EXCEPT ![s] = [state |-> "inactive", onstop |-> None]]
  /\ onstopEvents' = onstopEvents \cup {recorders[s].onstop[1]}
  /\ UNCHANGED << registryVars, handlers, storeVars, editVars, isRecording,
                  duration, permissionError, timerRef, refVars, streams,
                  contexts, startRequests, started >>

\* cleanupAudio on the streams: streamRef.current.getTracks().forEach(stop)
cleanupStreams(strs, ref) ==
  IF ref # None THEN [strs EXCEPT ![ref[1]] = "ended"] ELSE strs

\* cleanupAudio on the contexts: audioContextRef.current.close() unless closed
cleanupContexts(ctxs, ref) ==
  IF ref # None /\ ctxs[ref[1]] # "closed"
  THEN [ctxs EXCEPT ![ref[1]] = "closed"]
  ELSE ctxs

\* ------------------------------------------------------ capture completion
\* generateId(): any value of the id space, whatever the registry holds
generateId == Ids

\* the task queued by the recorder of a session: dataavailable pushes the data
\* of the session on chunksRef.current, then onstop builds the blob from
\* chunksRef.current and calls onRecordingComplete(blob, finalDuration), which
\* runs the synchronous part of handleRecordingCompleteCallback up to
\* await saveAudio, and last cleanupAudio() releases what the refs point to
RecordingComplete(ev, newId) ==
  /\ ev \in onstopEvents
  /\ newId \in generateId
  /\ onstopEvents' = onstopEvents \ {ev}
  /\ chunksRef' = Append(chunksRef, ev.serial)
  /\ LET blob == NewBlob(Append(chunksRef, ev.serial))
     IN  /\ SetRecordings(InsertRecording(recordings,
              NewRecording(newId, ev.len, ev.duration, blob)))
         /\ handlers' = handlers \cup
              { [id |-> newId, blob |-> blob, pc |-> "saveAudio"] }
  /\ streams' = cleanupStreams(streams, streamRef)
  /\ contexts' = cleanupContexts(contexts, audioContextRef)
  /\ streamRef' = None
  /\ audioContextRef' = None
  /\ UNCHANGED << storeVars, editVars, isRecording, duration, permissionError,
                  timerRef, mediaRecorder, recorders, startRequests, started >>

\* await saveAudio(newId, blob) settles: stored, or StorageError caught and
\* logged; either way analyzeLectureAudio(blob) is called next
SaveAudioSettles(h, ok) ==
  /\ h \in handlers
  /\ h.pc = "saveAudio"
  /\ blobStore' = IF ok THEN saveAudio(blobStore, h.id, h.blob) ELSE blobStore
  /\ handlers' = (handlers \ {h}) \cup {[h EXCEPT !.pc = "analyze"]}
  /\ UNCHANGED << registryVars, deletes, editVars, hookVars >>

\* await analyzeLectureAudio(blob) settles: the record with the handler's id
\* is marked completed, or marked error in the catch block
AnalysisSettles(h, response) ==
  /\ h \in handlers
  /\ h.pc = "analyze"
  /\ response \in Responses
  /\ handlers' = handlers \ {h}
  /\ LET result == analyzeLectureAudio(response)
     IN  IF result.ok
         THEN SetRecordings(MarkCompleted(recordings, h.id, result.data[1]))
         ELSE SetRecordings(MarkError(recordings, h.id))
  /\ UNCHANGED << storeVars, editVars, hookVars >>

\* ----------------------------------------------------------------- delete
\* deleteRecording, confirmed: the record is filtered out and deleteAudio(id)
\* is called and awaited
DeleteRecording(i) ==
  /\ i \in DOMAIN recordings
  /\ SetRecordings(RemoveRecording(recordings, recordings[i].id))
  /\ deletes' = [deletes EXCEPT ![recordings[i].id] = "pending"]
  /\ UNCHANGED << handlers, blobStore, editVars, hookVars >>

\* await deleteAudio(id) settles: the entry is removed, or the failure is
\* caught and logged
DeleteAudioSettles(id, ok) ==
  /\ deletes[id] = "pending"
  /\ blobStore' = IF ok THEN deleteAudio(blobStore, id) ELSE blobStore
  /\ deletes' = [deletes EXCEPT ![id] = IF ok THEN "resolved" ELSE "rejected"]
  /\ UNCHANGED << registryVars, handlers, editVars, hookVars >>

\* ------------------------------------------------------------------- edit
\* startEditing(e, rec)
StartEditing(i) ==
  /\ i \in DOMAIN recordings
  /\ editingId = None
  /\ editingId' = Some(recordings[i].id)
  /\ UNCHANGED << registryVars, handlers, storeVars, hookVars >>

\* saveEdit, with the fields as they stand when save is pressed
SaveEdit(editTitle, editSubject) ==
  /\ editingId # None
  /\ editTitle \in EditTitles
  /\ editSubject \in EditSubjects
  /\ SetRecordings(RenameRecording(recordings, editingId[1], editTitle, editSubject))
  /\ editingId' = None
  /\ UNCHANGED << handlers, storeVars, hookVars >>

\* the close and cancel buttons of the modal: setEditingId(null)
CancelEdit ==
  /\ editingId # None
  /\ editingId' = None
  /\ UNCHANGED << registryVars, handlers, storeVars, hookVars >>

\* ------------------------------------------------------------ detail view
\* recordings.find(r => r.id === selectedId): the position of the record the
\* detail view shows for a selected id, None when no record has it
selectedRecording(recs, selectedId) ==
  LET found == { i \in DOMAIN recs : recs[i].id = selectedId }
  IN  IF found = {} THEN None ELSE Some(Min(found))

\* loadAudio of NoteDetail: the audioBlob of the record when it is truthy,
\* else what getAudio(recording.id) yields
loadAudio(rec, store) ==
  IF rec.audioBlob # None
  THEN [from |-> "memory", audio |-> rec.audioBlob]
  ELSE [from |-> "store", audio |-> getAudio(store, rec.id)]

\* a faulty variant of RetryOffered: the button rendered whatever the status
RetryOffered_always(rec) == TRUE

\* renderContent of NoteDetail: a processing record gets the spinner, a record
\* in error or without notes gets the failure panel with the retry button, any
\* other record gets its notes
RetryOffered(rec) ==
  /\ rec.status # "processing"
  /\ (rec.status = "error" \/ rec.data = None)

\* a click on the retry button of the detail view. Which id is selected is
\* view state of App, taken here as an input of the click. App renders
\* <NoteDetail recording onBack /> without onRetry, so that the button has
\* onClick={undefined}: the click runs no handler
RetryClick(selectedId) ==
  /\ selectedId \in Ids
  /\ selectedRecording(recordings, selectedId) # None
  /\ RetryOffered(recordings[selectedRecording(recordings, selectedId)[1]])
  /\ UNCHANGED vars

\* ----------------------------------------------------------------- reload
\* the page is reloaded: every suspended call, all component state and every
\* object of the page (recorders, streams, contexts) is lost, localStorage and
\* IndexedDB survive, and the recordings state is initialized from the snapshot
Reload ==
  /\ recordings' = Rehydrate(snapshot)
  /\ snapshot' = Serialize(Rehydrate(snapshot))
  /\ handlers' = {}
  /\ deletes' = [ id \in Ids |-> "none" ]
  /\ editingId' = None
  /\ isRecording' = FALSE
  /\ duration' = 0
  /\ permissionError' = FALSE
  /\ timerRef' = FALSE
  /\ mediaRecorder' = None
  /\ streamRef' = None
  /\ audioContextRef' = None
  /\ chunksRef' = <<>>
  /\ recorders' = [ s \in Sessions |-> NoRecorder ]
  /\ streams' = [ s \in Sessions |-> "none" ]
  /\ contexts' = [ s \in Sessions |-> "none" ]
  /\ startRequests' = {}
  /\ onstopEvents' = {}
  /\ UNCHANGED << blobStore, started >>

Next ==
  \/ ToggleStart
  \/ \E req \in startRequests : MicrophoneGranted(req)
  \/ \E req \in startRequests : MicrophoneDenied(req)
  \/ \E req \in startRequests, step \in FailingSteps : StartFails(req, step)
  \/ Tick
  \/ StopRecording
  \/ \E s \in Sessions : TracksEnded(s)
  \/ \E ev \in onstopEvents, newId \in Ids : RecordingComplete(ev, newId)
  \/ \E h \in handlers, ok \in BOOLEAN : SaveAudioSettles(h, ok)
  \/ \E h \in handlers, response \in Responses : AnalysisSettles(h, response)
  \/ \E i \in DOMAIN recordings : DeleteRecording(i)
  \/ \E id \in Ids, ok \in BOOLEAN : DeleteAudioSettles(id, ok)
  \/ \E i \in DOMAIN recordings : StartEditing(i)
  \/ \E editTitle \in EditTitles, editSubject \in EditSubjects :
       SaveEdit(editTitle, editSubject)
  \/ CancelEdit
  \/ \E selectedId \in Ids : RetryClick(selectedId)
  \/ Reload

Spec == Init /\ [][Next]_vars

\* ================================================================== claims
Max(S) == CHOOSE x \in S : \A y \in S : x >= y

\* the positions of the record a suspended handler created: the record that
\* carries the handler's own in-memory artifact
RecordOf(h) == { i \in DOMAIN recordings : recordings[i].audioBlob = Some(h.blob) }

\* C1: every capture-complete event grows the registry by exactly one record,
\* placed at the head with status processing, the duration passed to the event
\* and the in-memory artifact attached, and leaves the records already present
\* in their order.
C1_InsertAtHead ==
  [][ \A ev \in onstopEvents, newId \in Ids :
        RecordingComplete(ev, newId) =>
          /\ Len(recordings') = Len(recordings) + 1
          /\ recordings'[1].status = "processing"
          /\ recordings'[1].duration = ev.duration
          /\ recordings'[1].audioBlob = Some(NewBlob(chunksRef'))
          /\ recordings'[1].data = None
          /\ \A i \in DOMAIN recordings : recordings'[i + 1] = recordings[i] ]_vars

\* C1 witness: two captures have completed, the later one is at the head, in
\* processing, with its artifact; the earlier one follows it.
C1_Witness ==
  /\ Len(recordings) = 2
  /\ recordings[1].status = "processing"
  /\ recordings[1].audioBlob = Some(Blob(2))
  /\ recordings[2].audioBlob = Some(Blob(1))

\* C2: after rehydration no record is processing; a record that was processing
\* in the snapshot is error with the interrupted message, and a record that
\* was completed or error keeps its status, notes and error message.
C2_Rehydration ==
  [][ Reload =>
        /\ Len(recordings') = Len(snapshot)
        /\ \A i \in DOMAIN snapshot :
             /\ recordings'[i].status # "processing"
             /\ snapshot[i].status = "processing" =>
                  /\ recordings'[i].status = "error"
                  /\ recordings'[i].errorMessage = Some(InterruptedMsg)
             /\ snapshot[i].status \in {"completed", "error"} =>
                  /\ recordings'[i].status = snapshot[i].status
                  /\ recordings'[i].data = snapshot[i].data
                  /\ recordings'[i].errorMessage = snapshot[i].errorMessage ]_vars

\* C2 witness: after a reload the registry holds a record interrupted in
\* processing next to a record that was completed before the reload.
C2_Witness ==
  /\ handlers = {}
  /\ \E i \in DOMAIN recordings :
       /\ recordings[i].status = "error"
       /\ recordings[i].errorMessage = Some(InterruptedMsg)
  /\ \E i \in DOMAIN recordings :
       /\ recordings[i].status = "completed"
       /\ recordings[i].data # None

\* C3: when the analysis call of a handler fails, the record the handler
\* created, if still present, ends in error with the generic message and no
\* notes, and every other record is unchanged.
C3_AnalysisFailure ==
  [][ \A h \in handlers, response \in Responses :
        (~analyzeLectureAudio(response).ok /\ AnalysisSettles(h, response)) =>
          /\ Len(recordings') = Len(recordings)
          /\ \A i \in DOMAIN recordings :
               IF i \in RecordOf(h)
               THEN /\ recordings'[i].status = "error"
                    /\ recordings'[i].errorMessage = Some(AnalysisErrorMsg)
                    /\ recordings'[i].data = None
               ELSE recordings'[i] = recordings[i] ]_vars

\* the text before the first '.', '!' or '?' of a summary
FirstSentence(summary) ==
  LET ends == { i \in 1..Len(summary) : summary[i] \in Terminators }
  IN  IF ends = {} THEN summary ELSE SubSeq(summary, 1, Min(ends) - 1)

\* C4: when the analysis call of a handler succeeds and its record is still
\* present, the record is completed with the result attached, and its title is
\* the first sentence of the summary when that is non-empty and under 30
\* characters, and is unchanged otherwise.
C4_AnalysisSuccess ==
  [][ \A h \in handlers, response \in Responses :
        (analyzeLectureAudio(response).ok /\ AnalysisSettles(h, response)) =>
          LET result == response.text[1].data
              first == FirstSentence(result.summary)
          IN  \A i \in RecordOf(h) :
                /\ recordings'[i].status = "completed"
                /\ recordings'[i].data = Some(result)
                /\ recordings'[i].title =
                     IF first # <<>> /\ Len(first) < TitleLimit
                     THEN first
                     ELSE recordings[i].title ]_vars

\* C4 witness: one record was completed with a 29-character first sentence,
\* now its title, another with a 30-character one and kept its title.
C4_Witness ==
  /\ \E i \in DOMAIN recordings :
       /\ recordings[i].status = "completed"
       /\ recordings[i].data # None
       /\ Len(FirstSentence(recordings[i].data[1].summary)) = TitleLimit - 1
       /\ recordings[i].title = FirstSentence(recordings[i].data[1].summary)
  /\ \E i \in DOMAIN recordings :
       /\ recordings[i].status = "completed"
       /\ recordings[i].data # None
       /\ Len(FirstSentence(recordings[i].data[1].summary)) = TitleLimit
       /\ recordings[i].title # FirstSentence(recordings[i].data[1].summary)

\* C5: the outcome of an analysis changes no record whose id differs from the
\* id of the handler, in whatever order the analyses settle.
C5_OwnIdOnly ==
  [][ \A h \in handlers :
        (\E response \in Responses : AnalysisSettles(h, response)) =>
          /\ Len(recordings') = Len(recordings)
          /\ \A i \in DOMAIN recordings :
               recordings[i].id # h.id => recordings'[i] = recordings[i] ]_vars

\* C5 witness: captures A then B with different ids; B, at the head, is
\* completed while A is still processing with its analysis in flight.
C5_Witness ==
  /\ Len(recordings) = 2
  /\ recordings[1].id # recordings[2].id
  /\ recordings[1].audioBlob = Some(Blob(2))
  /\ recordings[1].status = "completed"
  /\ recordings[2].audioBlob = Some(Blob(1))
  /\ recordings[2].status = "processing"
  /\ \E h \in handlers : h.blob = Blob(1) /\ h.pc = "analyze"

\* C6: the outcome of an analysis whose record was deleted in the meantime
\* leaves the registry as it is.
C6_DeletedNoOp ==
  [][ \A h \in handlers, response \in Responses :
        (RecordOf(h) = {} /\ AnalysisSettles(h, response)) =>
          recordings' = recordings ]_vars

\* C7: in every state, each record has notes iff it is completed and an error
\* message iff it is in error.
C7_FieldsMatchStatus ==
  \A i \in DOMAIN recordings :
    /\ recordings[i].data # None <=> recordings[i].status = "completed"
    /\ recordings[i].errorMessage # None <=> recordings[i].status = "error"

\* C8: in every state no two records of the registry have the same id.
C8_UniqueIds ==
  \A i, j \in DOMAIN recordings : i # j => recordings[i].id # recordings[j].id

\* the subject after normalization: the text between the first and the last
\* non-blank character, the fallback category when there is none
Normalized(subject) ==
  LET solid == { i \in 1..Len(subject) : subject[i] \notin Whitespace }
  IN  IF solid = {} THEN Fallback ELSE SubSeq(subject, Min(solid), Max(solid))

\* C9: saveEdit sets the title and the normalized subject of the records with
\* the edited id, changes nothing else of them (the status in particular) and
\* nothing of a record with another id; no record ever has an empty subject.
C9_Rename ==
  /\ [][ \A editTitle \in EditTitles, editSubject \in EditSubjects :
           SaveEdit(editTitle, editSubject) =>
             /\ Len(recordings') = Len(recordings)
             /\ \A i \in DOMAIN recordings :
                  IF recordings[i].id = editingId[1]
                  THEN recordings'[i] =
                         [ recordings[i] EXCEPT !.title = editTitle,
                                                !.subject = Normalized(editSubject) ]
                  ELSE recordings'[i] = recordings[i] ]_vars
  /\ [](\A i \in DOMAIN recordings : recordings[i].subject # <<>>)

\* C9 witness: a record in processing was renamed with a padded subject and
\* carries the trimmed subject and the new title, still in processing.
C9_Witness ==
  /\ editingId = None
  /\ \E i \in DOMAIN recordings :
       /\ recordings[i].subject = <<"M">>
       /\ recordings[i].title = <<>>
       /\ recordings[i].status = "processing"

\* C10: once deleteAudio(id) has resolved and no saveAudio(id, ...) is pending,
\* the blob store holds nothing under id.
C10_BlobGone ==
  \A id \in Ids :
    ( /\ deletes[id] = "resolved"
      /\ ~\E h \in handlers : h.id = id /\ h.pc = "saveAudio" )
    => getAudio(blobStore, id) = None

C12_RetryAvailable ==
  \A i \in DOMAIN recordings :
    recordings[i].status = "error" =>
      ENABLED ( /\ RetryClick(recordings[i].id)
                /\ \E j \in DOMAIN recordings' :
                     /\ recordings'[j].id = recordings[i].id
                     /\ recordings'[j].status = "processing"
                /\ \E h \in handlers' :
                     h.id = recordings[i].id /\ h.pc = "analyze" )

\* C13: for every record id at most one analysis attempt is in flight at any
\* time: no two invocations of the analysis are pending for the same id.
C13_OneAttemptPerId ==
  \A h1, h2 \in handlers :
    (h1.pc = "analyze" /\ h2.pc = "analyze" /\ h1.id = h2.id) => h1 = h2

\* C14: in every state the snapshot is the current collection, record by
\* record in order, without any audio bytes or in-memory audio reference; and
\* a record rehydrated from the snapshot carries no in-memory artifact, so that
\* its audio is looked up in the blob store under its id.
C14_SnapshotWithoutAudio ==
  /\ [] /\ Len(snapshot) = Len(recordings)
        /\ \A i \in DOMAIN recordings :
             snapshot[i] = [recordings[i] EXCEPT !.audioBlob = None]
  /\ [][ Reload =>
           \A i \in DOMAIN recordings' :
             /\ recordings'[i].audioBlob = None
             /\ loadAudio(recordings'[i], blobStore') =
                  [from |-> "store",
                   audio |-> getAudio(blobStore', recordings'[i].id)] ]_vars

\* C15: persisting the artifact is fire-and-forget with respect to analysis:
\* when a capture completes the analysis is invoked with the artifact without
\* waiting for the put to settle, and the outcome of the put, a StorageError
\* included, changes no record.
C15_FireAndForget ==
  /\ [][ \A ev \in onstopEvents, newId \in Ids :
           RecordingComplete(ev, newId) =>
             \E h \in handlers' :
               /\ h.id = newId
               /\ h.blob = recordings'[1].audioBlob[1]
               /\ h.pc = "analyze" ]_vars
  /\ [][ \A h \in handlers, ok \in BOOLEAN :
           SaveAudioSettles(h, ok) => recordings' = recordings ]_vars

\* C16: stop() has an effect only from active, where it queues exactly one
\* completion event, for the recorder it stopped; a completion event is queued
\* by nothing but an effective stop(), and each callback consumes one queued
\* event, so that there are as many callbacks as effective stops.
C16_OneCallbackPerStop ==
  /\ [][ StopRecording =>
           /\ mediaRecorder # None
           /\ recorders[mediaRecorder[1]].state = "recording"
           /\ recorders'[mediaRecorder[1]].state = "inactive"
           /\ \E ev \in onstopEvents' \ onstopEvents :
                /\ ev.serial = mediaRecorder[1]
                /\ onstopEvents' = onstopEvents \cup {ev} ]_vars
  /\ [][ (onstopEvents' \ onstopEvents # {}) => StopRecording ]_vars
  /\ [][ \A ev \in onstopEvents, newId \in Ids :
           RecordingComplete(ev, newId) =>
             /\ recorders[ev.serial].state = "inactive"
             /\ onstopEvents' = onstopEvents \ {ev} ]_vars

\* C17: the duration emitted with the artifact is the value of the elapsed-time
\* counter of the session when it was stopped: the completion event an
\* effective stop() queues carries the current duration, and the record the
\* callback creates has the duration of the event.
C17_FinalDuration ==
  /\ [][ StopRecording =>
           \A ev \in onstopEvents' \ onstopEvents : ev.duration = duration ]_vars
  /\ [][ \A ev \in onstopEvents, newId \in Ids :
           RecordingComplete(ev, newId) =>
             recordings'[1].duration = ev.duration ]_vars

\* C18: when getUserMedia rejects, the attempt changes nothing of the capture
\* session (it stays idle when it was: isRecording, the interval, the counter,
\* the recorders and streams and the queued completion events are as before),
\* no recorder and so no completion event exists for the attempt, the
\* permission message is set and the registry is unchanged; a start that is
\* granted the microphone clears the message.
C18_PermissionDenied ==
  /\ [][ \A req \in startRequests :
           MicrophoneDenied(req) =>
             /\ permissionError'
             /\ recorders[req.serial].state = "none"
             /\ streams[req.serial] = "none"
             /\ \A ev \in onstopEvents : ev.serial # req.serial
             /\ UNCHANGED << isRecording, timerRef, duration, recorders,
                             streams, contexts, onstopEvents, recordings,
                             snapshot, handlers >> ]_vars
  /\ [][ \A req \in startRequests :
           MicrophoneGranted(req) => ~permissionError' ]_vars
  /\ [](\A s \in Sessions : recorders[s].state # "none" => streams[s] # "none")

\* C18 witness: the only start so far was refused: the message is set, the
\* session is idle with no interval running, no request is pending, nothing
\* is queued and the registry is empty.
C18_Witness ==
  /\ permissionError
  /\ started = 1
  /\ startRequests = {}
  /\ ~isRecording
  /\ ~timerRef
  /\ onstopEvents = {}
  /\ recorders[1].state = "none"
  /\ recordings = <<>>

\* C19: when the completion callback of a session returns, the stream and the
\* audio context of that session are released, the stream, the context and the
\* buffered chunks of every other session are as before, and the artifact of
\* the session holds the data of that session alone.
C19_ReleaseOwnSession ==
  [][ \A ev \in onstopEvents, newId \in Ids :
        RecordingComplete(ev, newId) =>
          /\ streams'[ev.serial] = "ended"
          /\ contexts'[ev.serial] = "closed"
          /\ \A s \in Sessions \ {ev.serial} :
               /\ streams'[s] = streams[s]
               /\ contexts'[s] = contexts[s]
          /\ mediaRecorder # Some(ev.serial) => chunksRef' = chunksRef
          /\ recordings'[1].audioBlob = Some(Blob(ev.serial)) ]_vars

\* C20: in every state at most one microphone stream is acquired and not yet
\* released, and at most one recorder is recording.
C20_OneSession ==
  /\ Cardinality({ s \in Sessions : streams[s] = "live" }) <= 1
  /\ Cardinality({ s \in Sessions : recorders[s].state = "recording" }) <= 1

\* C21: a record that is completed stays completed for as long as it is in the
\* registry: no step changes the status of a completed record, whether the
\* step leaves the positions as they are or inserts a record at the head; and
\* a record in processing is never left without a handler that will settle
\* it: it is that of a handler still suspended, so that it leaves processing
\* once the calls of the handler terminate.
C21_ProcessingEnds ==
  /\ [][ \A i \in DOMAIN recordings :
           recordings[i].status = "completed" =>
             /\ Len(recordings') = Len(recordings) =>
                  recordings'[i].status = "completed"
             /\ Len(recordings') = Len(recordings) + 1 =>
                  recordings'[i + 1].status = "completed" ]_vars
  /\ [](\A i \in DOMAIN recordings :
          recordings[i].status = "processing" =>
            \E h \in handlers : i \in RecordOf(h))

\* C22: whenever the hook is not recording, no recorder is recording and no
\* completion event is pending, no stream is live, no audio context is running
\* and the interval is not set.
C22_NothingHeld ==
  ( /\ ~isRecording
    /\ onstopEvents = {}
    /\ \A s \in Sessions : recorders[s].state # "recording" )
  => /\ \A s \in Sessions : streams[s] # "live" /\ contexts[s] # "running"
     /\ ~timerRef

====
